---- MODULE Spec2Model ----
(***************************************************************************)
(* Model of fairseq's sentence-pair classification code:                   *)
(*   fairseq/data/sentence_pair_classification_dataset.py  (SpecDataset)   *)
(*   fairseq/models/sentence_pair_classifier.py            (SpecModel)     *)
(* Tensors are modelled by their index structure: a 1-d tensor is a        *)
(* sequence, a 2-d tensor a sequence of rows.  Python indices are 0-based, *)
(* TLA+ sequences 1-based; every index crossing the boundary is shifted.   *)
(***************************************************************************)
EXTENDS Integers, Sequences, FiniteSets, TLC

VARIABLES dataset, call, ret, prevOrder, module, args, model, fwd

vars == <<dataset, call, ret, prevOrder, module, args, model, fwd>>

dataVars == <<dataset, call, ret, prevOrder>>
modelVars == <<module, args, model, fwd>>

(* ---- bounds ---- *)
MaxN == 2          \* examples in a dataset
MaxLen == 2        \* raw tokens in a sentence
MaxBatch == 2      \* examples handed to one collater call
MaxTokens == 3     \* token budget of a dummy batch
MaxPos == 2        \* a max_positions limit
MaxTgtLen == 2     \* tgt_len of a dummy batch
MaxSeq == 2        \* columns of a forward() input matrix

Labels == {0, 1}
BatchSizes == {1, 2}

None == "None"

(* ---- helpers over sequences ---- *)
MaxOf(S) == CHOOSE x \in S : \A y \in S : y <= x
Min2(a, b) == IF a <= b THEN a ELSE b

RECURSIVE SumSeq(_)
SumSeq(s) == IF s = <<>> THEN 0 ELSE Head(s) + SumSeq(Tail(s))

Repeat(x, n) == [j \in 1..n |-> x]

RECURSIVE SeqsUpTo(_, _)
SeqsUpTo(S, n) ==
    IF n = 0 THEN {<<>>}
    ELSE LET shorter == SeqsUpTo(S, n - 1)
         IN shorter \cup {Append(s, x) : s \in {t \in shorter : Len(t) = n - 1}, x \in S}

(* ---- the vocabulary (fairseq Dictionary: pad() = 1, eos() = 2) ---- *)
Dictionary == [pad |-> 1, eos |-> 2]

\* a raw sentence of L content tokens, none of them pad or eos, all distinct
Sentence(L) == [j \in 1..L |-> Dictionary.eos + j]

\* Dictionary.dummy_sentence(length): `length` tokens, the last one eos
dummy_sentence(vocab, length) ==
    [j \in 1..length |-> IF j = length THEN vocab.eos ELSE vocab.eos + 1]

(* ---- tensor arithmetic ---- *)
\* tensor + python int: elementwise, the shape is the tensor's
TensorAddScalar(t, k) == [j \in 1..Len(t) |-> t[j] + k]

(* ---- data_utils.collate_tokens ---- *)
collate_tokens(values, pad_idx, eos_idx, left_pad) ==
    LET size == MaxOf({Len(values[i]) : i \in 1..Len(values)}) + 1
        row(v) == IF left_pad
                  THEN Repeat(pad_idx, size - Len(v) - 1) \o v \o <<eos_idx>>
                  ELSE v \o <<eos_idx>> \o Repeat(pad_idx, size - Len(v) - 1)
    IN [i \in 1..Len(values) |-> row(values[i])]

(* ---- collate ---- *)
collate_ntokens(samples) ==
    SumSeq([i \in 1..Len(samples) |->
              Len(TensorAddScalar(samples[i].sentence1, Len(samples[i].sentence2)))])

collate_net_input_samefield(samples, pad_idx, eos_idx) ==
    [sentence1 |-> collate_tokens([i \in 1..Len(samples) |-> samples[i].sentence1],
                                  pad_idx, eos_idx, FALSE),
     sentence2 |-> collate_tokens([i \in 1..Len(samples) |-> samples[i].sentence1],
                                  pad_idx, eos_idx, FALSE)]

\* line 22-29: each field padded on its own, left_pad=False
collate_net_input(samples, pad_idx, eos_idx) ==
    [sentence1 |-> collate_tokens([i \in 1..Len(samples) |-> samples[i].sentence1],
                                  pad_idx, eos_idx, FALSE),
     sentence2 |-> collate_tokens([i \in 1..Len(samples) |-> samples[i].sentence2],
                                  pad_idx, eos_idx, FALSE)]

collate_ids(samples) == [i \in 1..Len(samples) |-> samples[i].id]

collate_target_first(samples) == [i \in 1..Len(samples) |-> samples[1].target]

\* line 30: torch.stack of the per-example [label] tensors
collate_target(samples) == [i \in 1..Len(samples) |-> samples[i].target]

collate(samples, pad_idx, eos_idx) ==
    IF Len(samples) = 0
    THEN [empty |-> TRUE]
    ELSE [empty |-> FALSE,
          id |-> collate_ids(samples),
          ntokens |-> collate_ntokens(samples),
          net_input |-> collate_net_input(samples, pad_idx, eos_idx),
          target |-> collate_target(samples),
          nsentences |-> Len(samples[1].sentence1)]

(* ---- SentencePairClassificationDataset ---- *)
DatasetInit(dataset1, dataset2, labels, sizes1, sizes2, dictionary) ==
    [dataset1 |-> dataset1, dataset2 |-> dataset2,
     sizes1 |-> sizes1, sizes2 |-> sizes2,
     labels |-> labels, vocab |-> dictionary, shuffle |-> FALSE]

DatasetLen(ds) == Len(ds.dataset1)

getitem(ds, index) ==
    [id |-> index,
     sentence1 |-> ds.dataset1[index + 1],
     sentence2 |-> ds.dataset2[index + 1],
     target |-> <<ds.labels[index + 1]>>]

collater(ds, samples) == collate(samples, ds.vocab.pad, ds.vocab.eos)

(* ---- numpy helpers used by ordered_indices ---- *)
\* np.arange(n)
Arange(n) == [i \in 1..n |-> i - 1]

\* arr[idx] with an index array
Take(arr, idx) == [k \in 1..Len(idx) |-> arr[idx[k] + 1]]

\* np.random.permutation(n): any arrangement of 0..n-1
AllPermutations(n) ==
    {p \in [1..n -> 0..(n - 1)] : \A i, j \in 1..n : i # j => p[i] # p[j]}

RECURSIVE Merge_droptail(_, _, _)
Merge_droptail(a, b, keys) ==
    IF a = <<>> \/ b = <<>> THEN <<>>
    ELSE IF keys[Head(a) + 1] <= keys[Head(b) + 1]
         THEN <<Head(a)>> \o Merge_droptail(Tail(a), b, keys)
         ELSE <<Head(b)>> \o Merge_droptail(a, Tail(b), keys)

\* the merge step of a stable merge sort over positions: on equal keys the
\* left run goes first
RECURSIVE Merge(_, _, _)
Merge(a, b, keys) ==
    IF a = <<>> THEN b
    ELSE IF b = <<>> THEN a
    ELSE IF keys[Head(a) + 1] <= keys[Head(b) + 1]
         THEN <<Head(a)>> \o Merge(Tail(a), b, keys)
         ELSE <<Head(b)>> \o Merge(a, Tail(b), keys)

RECURSIVE MergeSort(_, _)
MergeSort(idx, keys) ==
    IF Len(idx) <= 1 THEN idx
    ELSE LET mid == Len(idx) \div 2
         IN Merge(MergeSort(SubSeq(idx, 1, mid), keys),
                  MergeSort(SubSeq(idx, mid + 1, Len(idx)), keys), keys)

\* np.argsort(keys, kind='mergesort'): 0-based positions, stable
argsort(keys) == MergeSort(Arange(Len(keys)), keys)

\* line 92-95: the indices the two sorts start from
start_indices(ds) ==
    IF ds.shuffle THEN AllPermutations(DatasetLen(ds)) ELSE {Arange(DatasetLen(ds))}

sort_indices_swapped(ds, indices) ==
    LET by2 == Take(indices, argsort(Take(ds.sizes2, indices)))
    IN Take(by2, argsort(Take(ds.sizes1, by2)))

\* line 96-97: sort by sizes1, then stably by sizes2
sort_indices(ds, indices) ==
    LET by1 == Take(indices, argsort(Take(ds.sizes1, indices)))
    IN Take(by1, argsort(Take(ds.sizes2, by1)))

(* ---- get_dummy_batch ---- *)
\* max_positions is [kind |-> "int" | "float", val |-> number]
\*               or [kind |-> "tuple", val |-> <<limit1, limit2>>]
MaxPositions ==
    [kind : {"int", "float"}, val : 1..MaxPos]
      \cup [kind : {"tuple"}, val : (1..MaxPos) \X (1..MaxPos)]

dummy_tgt_len_clampall(max_positions, tgt_len) ==
    IF max_positions.kind \in {"float", "int"}
    THEN [type |-> IF tgt_len <= max_positions.val THEN "int" ELSE max_positions.kind,
          val |-> Min2(tgt_len, max_positions.val)]
    ELSE [type |-> "int",
          val |-> Min2(tgt_len, Min2(max_positions.val[1], max_positions.val[2]))]

\* line 68-69: min(tgt_len, max_positions) returns tgt_len itself unless the
\* limit is strictly smaller, and then it has the limit's type
dummy_tgt_len(max_positions, tgt_len) ==
    IF max_positions.kind \in {"float", "int"}
    THEN [type |-> IF tgt_len <= max_positions.val THEN "int" ELSE max_positions.kind,
          val |-> Min2(tgt_len, max_positions.val)]
    ELSE [type |-> "int", val |-> tgt_len]

\* line 70-77: a float tgt_len makes bsz a float, which range() rejects
get_dummy_batch(ds, ntok, max_positions, tgt_len) ==
    LET tl == dummy_tgt_len(max_positions, tgt_len)
        bsz == ntok \div tl.val
        sent1 == dummy_sentence(ds.vocab, tl.val + 2)
        sent2 == dummy_sentence(ds.vocab, tl.val + 2)
    IN IF tl.type = "float"
       THEN [status |-> "TypeError"]
       ELSE [status |-> "ok",
             value |-> collater(ds, [i \in 1..bsz |->
                          [id |-> i - 1, sentence1 |-> sent1, sentence2 |-> sent2,
                           target |-> <<0>>]])]

(* ======================= the dataset's operations ======================= *)
Idle == [op |-> "idle"]

Datasets ==
    UNION {
      {DatasetInit([i \in 1..n |-> Sentence(l1[i])], [i \in 1..n |-> Sentence(l2[i])],
                   lb, l1, l2, Dictionary)
         : l1 \in [1..n -> 1..MaxLen], l2 \in [1..n -> 1..MaxLen], lb \in [1..n -> Labels]}
      : n \in 1..MaxN}

InitModelPart ==
    /\ module = [step |-> 0, base_architecture |-> None,
                 registry |-> [sentence_pair_classifier |-> None,
                               finetuning_sentence_pair_classifier |-> None]]
    /\ args = [status |-> None]
    /\ model = [status |-> None]
    /\ fwd = [status |-> None]

InitDataset ==
    /\ dataset \in Datasets
    /\ call = Idle
    /\ ret = [status |-> None]
    /\ prevOrder = <<>>
    /\ InitModelPart

\* dataset.collater([dataset[i] for i in idx])
Collater ==
    /\ call.op = "idle"
    /\ \E idx \in SeqsUpTo(0..(DatasetLen(dataset) - 1), MaxBatch) :
         LET samples == [k \in 1..Len(idx) |-> getitem(dataset, idx[k])]
         IN /\ call' = [op |-> "collater", idx |-> idx, samples |-> samples]
            /\ ret' = [status |-> "ok", value |-> collater(dataset, samples)]
    /\ UNCHANGED <<dataset, prevOrder, modelVars>>

GetDummyBatch ==
    /\ call.op = "idle"
    /\ \E ntok \in 0..MaxTokens, mp \in MaxPositions, tl \in 1..MaxTgtLen :
         /\ call' = [op |-> "get_dummy_batch", num_tokens |-> ntok,
                     max_positions |-> mp, tgt_len |-> tl]
         /\ ret' = get_dummy_batch(dataset, ntok, mp, tl)
    /\ UNCHANGED <<dataset, prevOrder, modelVars>>

OrderedIndices ==
    /\ call.op = "idle"
    /\ \E start \in start_indices(dataset) :
         /\ call' = [op |-> "ordered_indices"]
         /\ ret' = [status |-> "ok", value |-> sort_indices(dataset, start)]
    /\ UNCHANGED <<dataset, prevOrder, modelVars>>

\* the caller is done with the returned value
DiscardBatch ==
    /\ call.op # "idle"
    /\ call' = Idle
    /\ ret' = [status |-> None]
    /\ prevOrder' = IF call.op = "ordered_indices" THEN ret.value ELSE prevOrder
    /\ UNCHANGED <<dataset, modelVars>>

NextDataset == Collater \/ GetDummyBatch \/ OrderedIndices \/ DiscardBatch

SpecDataset == InitDataset /\ [][NextDataset]_vars

(* ===================== sentence_pair_classifier.py ====================== *)
Unset == "<unset>"

SPC == "sentence_pair_classifier"
FT == "finetuning_sentence_pair_classifier"

\* getattr(args, name, default) on the attributes base_architecture touches
GetAttr(a, name, default) == IF a[name] = Unset THEN default ELSE a[name]

\* line 241-246: the function registered for 'sentence_pair_classifier'
base_architecture_spc(a) ==
    [a EXCEPT !.model_dim = GetAttr(a, "model_dim", "2048"),
              !.embedding_dropout = GetAttr(a, "embedding_dropout", "0.5"),
              !.dropout = GetAttr(a, "dropout", "0.3"),
              !.last_dropout = GetAttr(a, "last_dropout", "0.3")]

\* line 249-252: the function registered for 'finetuning_sentence_pair_classifier'
base_architecture_ft(a) ==
    [a EXCEPT !.model_dim = GetAttr(a, "model_dim", "1024"),
              !.last_dropout = GetAttr(a, "last_dropout", "0.3")]

\* calling whatever function object a name or registry slot holds
CallArch(fn, a) == IF fn = SPC THEN base_architecture_spc(a) ELSE base_architecture_ft(a)

\* line 148-180: the embedding build_model constructs
build_embedding(a, dictionary) ==
    IF a.elmo_path = Unset THEN [status |-> "AttributeError"]
    ELSE IF a.elmo_path # None
    THEN IF a.model_dim = Unset \/ a.embedding_dropout = Unset
         THEN [status |-> "AttributeError"]
         ELSE [status |-> "ok", kind |-> "elmo", padding_idx |-> dictionary.pad,
               add_bos |-> TRUE, remove_bos |-> FALSE, remove_eos |-> FALSE]
    ELSE IF a.model_dim = Unset
         THEN [status |-> "AttributeError"]
         ELSE [status |-> "ok", kind |-> "lookup", padding_idx |-> dictionary.pad,
               add_bos |-> FALSE, remove_bos |-> FALSE, remove_eos |-> FALSE]

\* line 63-81: SentencePairClassifier.__init__ reads every hyperparameter
classifier_init(a, embedding) ==
    IF \E name \in {"model_dim", "embedding_dropout", "last_dropout", "dropout"} :
         a[name] = Unset
    THEN [status |-> "AttributeError"]
    ELSE [status |-> "ok", embedding |-> embedding, num_labels |-> a.num_labels,
          model_dim |-> a.model_dim, embedding_dropout |-> a.embedding_dropout,
          dropout |-> a.dropout, last_dropout |-> a.last_dropout]

\* line 139-182: base_architecture is looked up in the module namespace when
\* build_model runs; `a` is args after that call
build_model(a, dictionary) ==
    LET embedding == build_embedding(a, dictionary)
    IN IF embedding.status # "ok"
       THEN [status |-> "AttributeError"]
       ELSE classifier_init(a, embedding)

(* ---- forward ---- *)
NoMask == [present |-> FALSE]

pad_mask_noprepend(sentence, padding_idx) ==
    IF \A i \in 1..Len(sentence) : \A j \in 1..Len(sentence[i]) :
         sentence[i][j] # padding_idx
    THEN NoMask
    ELSE [present |-> TRUE,
          m |-> [i \in 1..Len(sentence) |->
                   [j \in 1..Len(sentence[i]) |-> sentence[i][j] = padding_idx]]]

\* line 90-102: eq(padding_idx), None when nothing is padded, else a leading
\* all-false column is concatenated
pad_mask(sentence, padding_idx) ==
    IF \A i \in 1..Len(sentence) : \A j \in 1..Len(sentence[i]) :
         sentence[i][j] # padding_idx
    THEN NoMask
    ELSE [present |-> TRUE,
          m |-> [i \in 1..Len(sentence) |->
                   <<FALSE>> \o
                   [j \in 1..Len(sentence[i]) |-> sentence[i][j] = padding_idx]]]

\* ElmoTokenEmbedder: positions it returns for `len` input tokens
ElmoTokenEmbedder_len(len, add_bos, remove_bos, remove_eos) ==
    len + (IF add_bos THEN 1 ELSE 0) - (IF remove_bos THEN 1 ELSE 0)
        - (IF remove_eos THEN 1 ELSE 0)

\* line 104-105: self.embedding(sentence).transpose(0, 1), as <<positions, batch>>
embed(embedding, sentence) ==
    <<IF embedding.kind = "elmo"
      THEN ElmoTokenEmbedder_len(Len(sentence[1]), embedding.add_bos,
                                 embedding.remove_bos, embedding.remove_eos)
      ELSE Len(sentence[1]),
      Len(sentence)>>

\* MultiheadAttention with add_zero_attn: query <<tgt_len, bsz>>, key
\* <<src_len, bsz>>, key_padding_mask absent or bsz rows by src_len columns
MultiheadAttention(query, key, key_padding_mask) ==
    IF /\ query[2] = key[2]
       /\ key_padding_mask.present =>
            /\ Len(key_padding_mask.m) = key[2]
            /\ \A i \in 1..Len(key_padding_mask.m) : Len(key_padding_mask.m[i]) = key[1]
    THEN [status |-> "ok", shape |-> query]
    ELSE [status |-> "error"]

\* line 45-58: attention, residual, layer norm, dropout, feed-forward keep q's shape
AttentionLayer_forward(q, kv, key_mask) == MultiheadAttention(q, kv, key_mask)

\* line 88-128
forward(m, sentence1, sentence2) ==
    LET premise_pad_mask == pad_mask(sentence1, m.embedding.padding_idx)
        hypothesis_pad_mask == pad_mask(sentence2, m.embedding.padding_idx)
        embedded_premise == embed(m.embedding, sentence1)
        embedded_hypothesis == embed(m.embedding, sentence2)
        q == <<m.num_labels, embedded_hypothesis[2]>>
        layer1 == AttentionLayer_forward(embedded_hypothesis, embedded_premise,
                                         premise_pad_mask)
        layer2 == IF layer1.status = "ok"
                  THEN AttentionLayer_forward(layer1.shape, embedded_premise,
                                              premise_pad_mask)
                  ELSE layer1
        enc_q == IF layer2.status = "ok"
                 THEN MultiheadAttention(q, layer2.shape, hypothesis_pad_mask)
                 ELSE layer2
        premise_call == [mask |-> premise_pad_mask, key_len |-> embedded_premise[1]]
        attn_calls ==
            <<premise_call>>
              \o (IF layer1.status = "ok" THEN <<premise_call>> ELSE <<>>)
              \o (IF layer2.status = "ok"
                  THEN <<[mask |-> hypothesis_pad_mask, key_len |-> layer2.shape[1]]>>
                  ELSE <<>>)
    IN [status |-> enc_q.status,
        sentence1 |-> sentence1, sentence2 |-> sentence2,
        premise_pad_mask |-> premise_pad_mask,
        hypothesis_pad_mask |-> hypothesis_pad_mask,
        attn_calls |-> attn_calls,
        out_shape |-> IF enc_q.status = "ok"
                      THEN <<enc_q.shape[2], enc_q.shape[1]>> ELSE <<>>]

(* ==================== the classifier's operations ======================= *)
NumLabelChoices == {2, 3}

ArgsChoices ==
    [model_dim : {Unset, "512"}, embedding_dropout : {Unset, "0.1"},
     dropout : {Unset, "0.2"}, last_dropout : {Unset, "0.4"},
     elmo_path : {Unset, None, "elmo.pt"}, num_labels : NumLabelChoices]

PadToken == Dictionary.pad
WordToken == Dictionary.eos + 1

\* bsz-by-len token matrices, any pattern of padding
TokenMatrices(bsz) ==
    UNION {[1..bsz -> [1..len -> {PadToken, WordToken}]] : len \in 1..MaxSeq}

InitModel ==
    /\ dataset = DatasetInit(<<Sentence(1)>>, <<Sentence(1)>>, <<0>>, <<1>>, <<1>>,
                             Dictionary)
    /\ call = Idle
    /\ ret = [status |-> None]
    /\ prevOrder = <<>>
    /\ InitModelPart

\* line 241-246 executes: the def binds the name, the decorator registers it
DefineBaseArchitecture1 ==
    /\ module.step = 0
    /\ module' = [module EXCEPT !.step = 1, !.base_architecture = SPC,
                                !.registry = [@ EXCEPT ![SPC] = SPC]]
    /\ UNCHANGED <<dataVars, args, model, fwd>>

\* line 249-252 executes: the second def rebinds the same name
DefineBaseArchitecture2 ==
    /\ module.step = 1
    /\ module' = [module EXCEPT !.step = 2, !.base_architecture = FT,
                                !.registry = [@ EXCEPT ![FT] = FT]]
    /\ UNCHANGED <<dataVars, args, model, fwd>>

\* SentencePairClassifier.build_model(args, task), once the module is imported
BuildModel ==
    /\ module.step = 2
    /\ model.status = None
    /\ \E a \in ArgsChoices :
         LET after == CallArch(module.base_architecture, a)
         IN /\ args' = after
            /\ model' = [given |-> a] @@ build_model(after, Dictionary)
    /\ UNCHANGED <<dataVars, module, fwd>>

\* model(sentence1, sentence2)
Forward ==
    /\ model.status = "ok"
    /\ fwd.status = None
    /\ \E bsz \in BatchSizes :
         \E sentence1 \in TokenMatrices(bsz), sentence2 \in TokenMatrices(bsz) :
           fwd' = forward(model, sentence1, sentence2)
    /\ UNCHANGED <<dataVars, module, args, model>>

\* the caller is done with the logits
DiscardOutput ==
    /\ fwd.status # None
    /\ fwd' = [status |-> None]
    /\ UNCHANGED <<dataVars, module, args, model>>

NextModel ==
    \/ DefineBaseArchitecture1 \/ DefineBaseArchitecture2
    \/ BuildModel \/ Forward \/ DiscardOutput

SpecModel == InitModel /\ [][NextModel]_vars


(* ========================= claims on the dataset ======================== *)
Collated == call.op = "collater" /\ Len(call.samples) > 0

BatchSize(b) == IF b.empty THEN 0 ELSE Len(b.id)

\* C1: for a non-empty list of n examples, 'id' is exactly the examples' ids in
\* input order and 'target' has n rows of one column, row i holding the label
\* of the i-th input example.
C1_IdsAndTargets ==
    Collated =>
      LET b == ret.value
          n == Len(call.idx)
      IN /\ b.id = call.idx
         /\ Len(b.target) = n
         /\ \A i \in 1..n :
              /\ Len(b.target[i]) = 1
              /\ b.target[i][1] = dataset.labels[call.idx[i] + 1]

C1_Witness ==
    /\ Collated
    /\ Len(call.idx) = 2
    /\ call.idx[1] > call.idx[2]
    /\ dataset.labels[call.idx[1] + 1] # dataset.labels[call.idx[2] + 1]
    /\ ret.value.target = <<<<dataset.labels[call.idx[1] + 1]>>,
                            <<dataset.labels[call.idx[2] + 1]>>>>

\* C2: for a non-empty list of examples, 'ntokens' is the sum over the examples
\* of len(sentence1) + len(sentence2).
C2_NTokensBothSentences ==
    Collated =>
      ret.value.ntokens =
        SumSeq([i \in 1..Len(call.samples) |->
                  Len(call.samples[i].sentence1) + Len(call.samples[i].sentence2)])

\* C3: each collated field has rows of one common width, the maximum raw length
\* of that field in the batch plus one (the eos); the width of a field does not
\* depend on the other field; pad values occur only after a row's content.
FieldRightPadded(matrix, raws) ==
    LET width == MaxOf({Len(raws[i]) : i \in 1..Len(raws)}) + 1
    IN /\ Len(matrix) = Len(raws)
       /\ \A i \in 1..Len(raws) :
            /\ Len(matrix[i]) = width
            /\ \A j \in 1..width :
                 /\ j <= Len(raws[i]) => matrix[i][j] = raws[i][j]
                 /\ j = Len(raws[i]) + 1 => matrix[i][j] = dataset.vocab.eos
                 /\ j > Len(raws[i]) + 1 <=> matrix[i][j] = dataset.vocab.pad

C4_OrderedIndicesPermutation ==
    call.op = "ordered_indices" =>
      LET r == ret.value
          n == DatasetLen(dataset)
      IN /\ Len(r) = n
         /\ \A k \in 1..Len(r) : r[k] \in 0..(n - 1)
         /\ \A i \in 0..(n - 1) : Cardinality({k \in 1..Len(r) : r[k] = i}) = 1

C4_Witness ==
    /\ call.op = "ordered_indices"
    /\ DatasetLen(dataset) >= 2
    /\ ret.value # Arange(DatasetLen(dataset))

\* C5: with shuffling disabled, ordered_indices() is in the one order that is
\* non-decreasing in sizes2, ties in sizes2 non-decreasing in sizes1, ties in
\* both in increasing index order; so a second call returns the same sequence.
Before(i, j) ==
    \/ dataset.sizes2[i + 1] < dataset.sizes2[j + 1]
    \/ /\ dataset.sizes2[i + 1] = dataset.sizes2[j + 1]
       /\ \/ dataset.sizes1[i + 1] < dataset.sizes1[j + 1]
          \/ /\ dataset.sizes1[i + 1] = dataset.sizes1[j + 1]
             /\ i < j

PositionLimit(mp) ==
    IF mp.kind = "tuple" THEN Min2(mp.val[1], mp.val[2]) ELSE mp.val

C7_DummyBatchSizeAnyForm ==
    call.op = "get_dummy_batch" =>
      /\ ret.status = "ok"
      /\ BatchSize(ret.value)
           = call.num_tokens \div Min2(call.tgt_len, PositionLimit(call.max_positions))

\* C7 amended: an integer limit (or a float one not below target_len) clamps
\* target_len and the batch has token_budget // min(target_len, limit) examples;
\* a tuple of limits is ignored and the batch has token_budget // target_len
\* examples; a float limit below target_len raises TypeError.
C7_DummyBatchSizeByForm ==
    call.op = "get_dummy_batch" =>
      LET mp == call.max_positions
          tl == call.tgt_len
      IN /\ mp.kind = "int" =>
              /\ ret.status = "ok"
              /\ BatchSize(ret.value) = call.num_tokens \div Min2(tl, mp.val)
         /\ mp.kind = "tuple" =>
              /\ ret.status = "ok"
              /\ BatchSize(ret.value) = call.num_tokens \div tl
         /\ (mp.kind = "float" /\ mp.val >= tl) =>
              /\ ret.status = "ok"
              /\ BatchSize(ret.value) = call.num_tokens \div tl
         /\ (mp.kind = "float" /\ mp.val < tl) => ret.status = "TypeError"

C7_Witness ==
    /\ call.op = "get_dummy_batch"
    /\ call.max_positions.kind = "tuple"
    /\ PositionLimit(call.max_positions) < call.tgt_len
    /\ ret.status = "ok"
    /\ BatchSize(ret.value) = 1
    /\ call.num_tokens \div PositionLimit(call.max_positions) > 1

(* ======================== claims on the classifier ====================== *)
\* C6: build_model on args that leave model_dim, embedding_dropout, dropout and
\* last_dropout unset applies 2048 / 0.5 / 0.3 / 0.3 and constructs the model
\* with those values.
C6_DefaultsOfSentencePairClassifier ==
    (/\ model.status # None
     /\ model.given.model_dim = Unset
     /\ model.given.embedding_dropout = Unset
     /\ model.given.dropout = Unset
     /\ model.given.last_dropout = Unset
     /\ model.given.elmo_path # Unset) =>
      /\ args.model_dim = "2048"
      /\ args.embedding_dropout = "0.5"
      /\ args.dropout = "0.3"
      /\ args.last_dropout = "0.3"
      /\ model.status = "ok"
      /\ model.model_dim = "2048"
      /\ model.embedding_dropout = "0.5"
      /\ model.dropout = "0.3"
      /\ model.last_dropout = "0.3"

\* C8: for every batch, lengths, padding pattern and embedding, forward
\* completes and returns batch_size rows by num_labels columns.
C8_ForwardOutputShape ==
    fwd.status # None =>
      /\ fwd.status = "ok"
      /\ fwd.out_shape = <<Len(fwd.sentence1), model.num_labels>>

\* C9: per field, the mask is absent when no position of that field in the
\* batch is the padding index; otherwise it has one more column than the field,
\* column 0 false in every row and column j+1 true exactly when token j of the
\* row is the padding index.  One field's decision never depends on the other.
MaskOfField(mask, sentence) ==
    LET pad == model.embedding.padding_idx
        padded == \E i \in 1..Len(sentence) : \E j \in 1..Len(sentence[i]) :
                    sentence[i][j] = pad
    IN /\ mask.present <=> padded
       /\ mask.present =>
            /\ Len(mask.m) = Len(sentence)
            /\ \A i \in 1..Len(sentence) :
                 /\ Len(mask.m[i]) = Len(sentence[i]) + 1
                 /\ mask.m[i][1] = FALSE
                 /\ \A j \in 1..Len(sentence[i]) :
                      mask.m[i][j + 1] <=> sentence[i][j] = pad

C9_PaddingMasks ==
    fwd.status # None =>
      /\ MaskOfField(fwd.premise_pad_mask, fwd.sentence1)
      /\ MaskOfField(fwd.hypothesis_pad_mask, fwd.sentence2)

C9_Witness ==
    /\ fwd.status # None
    /\ ~fwd.premise_pad_mask.present
    /\ fwd.hypothesis_pad_mask.present
    /\ Len(fwd.sentence2) = 2
    /\ Len(fwd.sentence2[1]) = 2
    /\ fwd.sentence2[1][1] = model.embedding.padding_idx
    /\ fwd.hypothesis_pad_mask.m[1] = <<FALSE, TRUE, FALSE>>
    /\ fwd.hypothesis_pad_mask.m[2] = <<FALSE, FALSE, FALSE>>

\* C10: whenever forward passes a non-absent key-padding mask to an attention
\* call, the mask has as many columns as the key sequence of that call has
\* positions, for the ELMo embedder and for the plain lookup embedding.
C10_MaskMatchesKeyLength ==
    fwd.status # None =>
      \A k \in 1..Len(fwd.attn_calls) :
        fwd.attn_calls[k].mask.present =>
          \A i \in 1..Len(fwd.attn_calls[k].mask.m) :
            Len(fwd.attn_calls[k].mask.m[i]) = fwd.attn_calls[k].key_len

====
